---- MODULE Spec2Model ----
(***************************************************************************)
(* Retry / circuit-breaker call layer of PythonDependencyInjector.         *)
(*                                                                         *)
(*   ApiClient._make_request   (src/api_client.py)  tenacity retry loop    *)
(*   S3Client._observe         (src/s3_client.py)   pybreaker around a     *)
(*                                                  2-attempt retry loop   *)
(*   CustomApiClient._call_with_metrics (src/custom_api_client.py)         *)
(*                                                  pybreaker, no retry    *)
(*                                                                         *)
(* A caller (thread) runs one call at a time; pc[t] is its position in the *)
(* call.  Durations are whole seconds.                                     *)
(***************************************************************************)
EXTENDS Integers, Sequences, FiniteSets, TLC

VARIABLES
    now,            \* wall clock, seconds
    retry_policy,   \* ApiClient.retry_policy, the client's own policy
    registry,       \* the _breakers dicts: key -> creator of the registered breaker
    breakers,       \* every CircuitBreaker object ever constructed
    lockOwner,      \* CircuitBreaker._lock of each breaker object
    pc,             \* position of each caller in its call
    call,           \* the call a caller is making: kind, key, retry policy
    brk,            \* the breaker object the caller got from _get_breaker
    gate,           \* what the caller saw when it entered the breaker
    attempt_number, \* tenacity RetryCallState.attempt_number
    outcome,        \* tenacity RetryCallState.outcome of the last attempt
    invocations,    \* times the attempt function ran in this call
    delay,          \* tenacity next_action.sleep of this call's pending retry
    retryReasons,   \* reason labels RETRY_COUNTER got in this call, in order
    fnResult,       \* what the breaker-guarded function returned or raised
    result,         \* what the call gave its caller
    failRun,        \* per key: failed admitted calls since the last success
    calls,          \* calls begun so far
    history,        \* outcomes of the attempts of this call, in order
    counted,        \* Prometheus counter increments of this call, in order
    gauge,          \* the circuit-state gauges, one sample per label
    cancelled,      \* the caller of this call has given up waiting for it
    observed,       \* Prometheus histogram observations of this call, in order
    hooked,         \* the before_sleep hooks that ran on this call's last retry decision
    value,          \* what get/post/put/delete/patch handed back to the caller
    classified,     \* what a reason resolver called on this caller's retry state gave
    use_session,    \* ApiClient.use_session
    client_session, \* ApiClient._session
    sessions,       \* the requests.Session objects that are open
    session         \* `session` of this caller's _make_request

vars == <<now, retry_policy, registry, breakers, lockOwner, pc, call, brk, gate, attempt_number,
          outcome, invocations, delay, retryReasons, fnResult, result, failRun, calls,
          history, counted, gauge, cancelled, observed, hooked, value,
          classified, use_session, client_session, sessions, session>>

-----------------------------------------------------------------------------
(* Bounds of the model *)

MaxAttempts == 3
TimeUnit == 150
MaxTime == 600
MaxCalls == 5
MaxMultiplier == 2
MaxWaitArg == 5
MaxNegWait == 2

(* Program constants *)

FailMax == 3
ResetTimeout == 300
S3Attempts == 2
S3Multiplier == 1
S3MinWait == 2
S3MaxWait == 10
DefaultAttempts == 3
DefaultMultiplier == 1
DefaultMinWait == 2
DefaultMaxWait == 10

-----------------------------------------------------------------------------
(* Callers, keys, outcomes *)

Threads == {"t1", "t2"}
NoThread == "none"

S3Keys == {"K", "K2"}
CustomKey == "x:1"

\* bucket K in the _breakers dict of a second S3Client object
OtherClientK == "K@2"

Keys == S3Keys \cup {CustomKey, OtherClientK}

\* the bucket, or category:org_id, a registry entry is for
LabelOf(k) == IF k = OtherClientK THEN "K" ELSE k

Max(a, b) == IF a >= b THEN a ELSE b
Min(a, b) == IF a <= b THEN a ELSE b

RECURSIVE Pow2(_)
Pow2(n) == IF n <= 0 THEN 1 ELSE 2 * Pow2(n - 1)

Exc(name) == [exc |-> name, status |-> 0]
Resp(code) == [exc |-> "none", status |-> code]
ClientError(code) == [exc |-> "ClientError", status |-> code]
NoOutcome == [exc |-> "none", status |-> 0]

Failed(o) == o.exc # "none"

ApiOutcomes == {Exc("Timeout"), Exc("ConnectionError"), Exc("ValueError"),
                Resp(200), Resp(404), Resp(429), Resp(503)}
S3Outcomes == {Resp(200), ClientError(404), ClientError(500),
               Exc("BotoCoreError"), Exc("TypeError")}
CustomOutcomes == {Resp(200), Exc("HTTPError")}
ConcOutcomes == {Resp(200), ClientError(404), Exc("TypeError")}

\* a response with a Content-Type header (its parts, in order) and a body that
\* response.json() parses or not
Response(code, content_type, json_ok) ==
    [exc |-> "none", status |-> code, content_type |-> content_type, json_ok |-> json_ok]

ContentTypes == {<<"application/json">>, <<"application/json", "charset=utf-8">>,
                 <<"text/plain">>, <<>>}

GetOutcomes ==
    {Response(code, ct, ok) : code \in {200, 204}, ct \in ContentTypes, ok \in BOOLEAN}
        \cup {Resp(404), Resp(503), Exc("Timeout")}

\* response.headers.get("Content-Type", "")
ContentType(o) == IF "content_type" \in DOMAIN o THEN o.content_type ELSE <<>>

\* response.json() returns (it raises ValueError otherwise)
JsonParses(o) == "json_ok" \in DOMAIN o /\ o.json_ok

\* what the body of a JSON response is: no JSON, a JSON array, an object without
\* the key error_code, an object with it
Bodies == {"unparsable", "list", "no_code", "code"}

JsonResponse(code, body) ==
    [exc |-> "none", status |-> code, content_type |-> <<"application/json">>,
     json_ok |-> body # "unparsable", body |-> body]

ClassifyOutcomes ==
    {JsonResponse(code, b) : code \in {200, 404, 429, 500, 503}, b \in Bodies}
        \cup {Exc("Timeout"), Exc("ConnectionError")}

\* bool(response): requests.Response.__bool__ is Response.ok, no 4xx or 5xx status
ResponseOk(o) == ~(o.status >= 400 /\ o.status < 600)

\* result.json().get("error_code", "")
ErrorCodeOf(o) == IF o.body = "code" THEN "E42" ELSE ""

IsRequestException(name) ==
    name \in {"RequestException", "Timeout", "ConnectionError", "HTTPError"}

IsBotoError(name) == name \in {"BotoCoreError", "ClientError"}

-----------------------------------------------------------------------------
(* Retry policies *)

RetryPolicy(n) ==
    [attempts |-> n, multiplier |-> DefaultMultiplier, min_wait |-> DefaultMinWait,
     max_wait |-> DefaultMaxWait, no_retry |-> FALSE]

NoRetryPolicy ==
    [attempts |-> 1, multiplier |-> DefaultMultiplier, min_wait |-> DefaultMinWait,
     max_wait |-> DefaultMaxWait, no_retry |-> TRUE]

S3RetryPolicy ==
    [attempts |-> S3Attempts, multiplier |-> S3Multiplier, min_wait |-> S3MinWait,
     max_wait |-> S3MaxWait, no_retry |-> FALSE]

Policies == {RetryPolicy(n) : n \in 1..MaxAttempts} \cup {NoRetryPolicy}

WaitArgs == (0 - MaxNegWait)..MaxWaitArg

WaitPolicies ==
    {[attempts |-> MaxAttempts, multiplier |-> m, min_wait |-> lo, max_wait |-> hi,
      no_retry |-> FALSE] : m \in 1..MaxMultiplier, lo \in WaitArgs, hi \in WaitArgs}

\* RetryPolicy.no_retry replaces build by `lambda: Retrying(...)`, which takes no
\* argument; _make_request calls build(method=..., endpoint=..., base_url=...,
\* body=...), a TypeError
BuildRaises(p) == p.no_retry

NoCall == [kind |-> "none", key |-> "none", policy |-> NoRetryPolicy, via |-> "none"]

MaxAttemptsOf(c) ==
    IF c.kind = "custom" THEN 1 ELSE c.policy.attempts

-----------------------------------------------------------------------------
(* What a call, or the function a breaker guards, ends with *)

Returned(code) == [tag |-> "returned", exc |-> "none", status |-> code]
Raised(name, code) == [tag |-> "raised", exc |-> name, status |-> code]
NoResult == [tag |-> "none", exc |-> "none", status |-> 0]

\* what the attempt's outcome is to the caller of the loop: raised or returned
OutcomeResult(o) == IF Failed(o) THEN Raised(o.exc, o.status) ELSE Returned(o.status)

-----------------------------------------------------------------------------
(* tenacity, as the policies configure it *)

\* mutant: the budget test is off by one and lets attempt n+1 run
StopAfterAttempt_OffByOne(n, k) == k > n

\* stop=stop_after_attempt(n)
StopAfterAttempt(n, k) == k >= n

\* mutant: the exponent is the attempt number, not the attempt number less one
WaitExponential_NoShift(multiplier, lo, hi, k) ==
    Max(Max(0, lo), Min(multiplier * Pow2(k), hi))

\* wait=wait_exponential(multiplier, min, max), evaluated after failed attempt k
WaitExponential(multiplier, lo, hi, k) ==
    Max(Max(0, lo), Min(multiplier * Pow2(k - 1), hi))

\* retry=...: does this outcome ask for another attempt
RetryPredicate(c, o) ==
    IF c.policy.no_retry THEN FALSE
    ELSE IF c.kind = "api"
         THEN (Failed(o) /\ IsRequestException(o.exc)) \/ (~Failed(o) /\ o.status >= 500)
    ELSE IF c.kind = "s3"
         THEN Failed(o) /\ IsBotoError(o.exc)
    ELSE FALSE

\* the helper S3Client declares for the retry decision
is_retryable_exception(o) ==
    IF o.exc = "ClientError" THEN o.status # 404 ELSE o.exc = "BotoCoreError"

\* mutant: build sets no before_sleep hook
HasRetryHooks_None(c) == FALSE

\* before_sleep=... is set by RetryPolicy.build only
HasRetryHooks(c) == c.kind = "api" /\ ~c.policy.no_retry

\* mutant: status 429 is labelled like every other status below 500
DefaultReasonResolver_NoRateLimit(o) ==
    IF Failed(o) THEN [raised |-> TRUE, tag |-> o.exc]
    ELSE [raised |-> FALSE,
          tag |-> IF o.status >= 500 THEN "5xx"
                  ELSE "status_" \o ToString(o.status)]

\* mutant: the resolver labels a response the way the log hook does, by its status
DefaultReasonResolver_StatusLabel(o) ==
    IF Failed(o) THEN [raised |-> TRUE, tag |-> o.exc]
    ELSE [raised |-> FALSE, tag |-> "status_" \o ToString(o.status)]

\* RetryPolicy._default_reason_resolver: outcome.result() re-raises a raised error
DefaultReasonResolver(o) ==
    IF Failed(o) THEN [raised |-> TRUE, tag |-> o.exc]
    ELSE [raised |-> FALSE,
          tag |-> IF o.status >= 500 THEN "5xx"
                  ELSE IF o.status = 429 THEN "rate_limit"
                  ELSE "status_" \o ToString(o.status)]

\* custom_reason_classifier: outcome.result() re-raises a raised error; `if result`
\* is the response's ok; result.json() raises on a body that is no JSON, and
\* .get raises on one that is no object, both swallowed by `except Exception`
CustomReasonClassifier(o) ==
    IF Failed(o) THEN [raised |-> TRUE, tag |-> o.exc]
    ELSE IF ResponseOk(o) /\ "body" \in DOMAIN o /\ o.body \in {"no_code", "code"}
    THEN [raised |-> FALSE, tag |-> "app_error_" \o ErrorCodeOf(o)]
    ELSE DefaultReasonResolver(o)

Resolvers == {"default", "custom"}

\* RetryPolicy.reason_resolver(retry_state)
ReasonResolver(resolver, o) ==
    IF resolver = "custom" THEN CustomReasonClassifier(o) ELSE DefaultReasonResolver(o)

\* RetryPolicy._log_retry_attempt_hook: outcome.result() re-raises a raised error
LogRetryAttemptHookRaises(o) == Failed(o)

\* the chained before_sleep hooks: the first hook that raises ends the chain
ChainHooks(o) ==
    IF LogRetryAttemptHookRaises(o) THEN [raised |-> TRUE, tag |-> o.exc]
    ELSE DefaultReasonResolver(o)

\* _chain_hooks.chained_hook: the hooks that ran, in order; `for hook in hooks:
\* hook(retry_state)` ends at the first hook that raises
ChainHooksRun(o) ==
    IF LogRetryAttemptHookRaises(o)
    THEN <<"before_sleep_log", "_log_retry_attempt_hook">>
    ELSE <<"before_sleep_log", "_log_retry_attempt_hook", "_custom_retry_metrics_hook">>

\* One round of the Retrying loop after attempt k of call c gave outcome o:
\* either the loop ends (res) or it sleeps for `sleep` seconds and goes on.
RetryingIter(c, k, o) ==
    IF ~RetryPredicate(c, o)
    THEN [next |-> "finish", res |-> OutcomeResult(o), sleep |-> 0, reasons |-> <<>>,
          hooks |-> <<>>]
    ELSE IF StopAfterAttempt(c.policy.attempts, k)
    THEN [next |-> "finish",
          res |-> IF Failed(o) THEN Raised(o.exc, o.status)
                  ELSE Raised("RetryError", o.status),
          sleep |-> 0, reasons |-> <<>>, hooks |-> <<>>]
    ELSE IF HasRetryHooks(c) /\ ChainHooks(o).raised
    THEN [next |-> "finish", res |-> Raised(o.exc, o.status), sleep |-> 0,
          reasons |-> <<>>, hooks |-> ChainHooksRun(o)]
    ELSE [next |-> "sleep", res |-> NoResult,
          sleep |-> WaitExponential(c.policy.multiplier, c.policy.min_wait,
                                    c.policy.max_wait, k),
          reasons |-> IF HasRetryHooks(c) THEN <<ChainHooks(o).tag>> ELSE <<>>,
          hooks |-> IF HasRetryHooks(c) THEN ChainHooksRun(o) ELSE <<>>]

\* mutant: a body that does not parse is handed back as no value
HandleResponse_NoJsonFallback(o) ==
    IF o.status = 204 THEN "None"
    ELSE IF \E i \in 1..Len(ContentType(o)) : ContentType(o)[i] = "application/json"
         THEN IF JsonParses(o) THEN "json" ELSE "None"
    ELSE "text"

\* ApiClient._handle_response(response): None, the parsed JSON body, or the text
HandleResponse(o) ==
    IF o.status = 204 THEN "None"
    ELSE IF \E i \in 1..Len(ContentType(o)) : ContentType(o)[i] = "application/json"
         THEN IF JsonParses(o) THEN "json" ELSE "text"
    ELSE "text"

\* ApiClient.health_check: response.status_code == 200, and False on any exception
HealthCheck(r) ==
    IF r.tag = "returned" /\ r.status = 200 THEN "True" ELSE "False"

\* S3Client.file_exists: True when _observe returned, False on a ClientError whose
\* code is 404, any other exception is raised
FileExists(r) ==
    IF r.tag = "returned" THEN "True"
    ELSE IF r.exc = "ClientError" /\ r.status = 404 THEN "False"
    ELSE "raised"

\* response.raise_for_status() after the loop returned a response
RaiseForStatus(r) ==
    IF r.tag = "returned" /\ r.status >= 400 /\ r.status < 600
    THEN Raised("HTTPError", r.status)
    ELSE r

-----------------------------------------------------------------------------
(* pybreaker, as _get_breaker configures it *)

NoBreaker == [state |-> "none", counter |-> 0, opened_at |-> -1]
NewBreaker == [state |-> "closed", counter |-> 0, opened_at |-> -1]
NoGate == [state |-> "none", elapsed |-> 0, admitted |-> FALSE]

Breaker(t) == <<call[t].key, brk[t]>>

\* mutant: the breaker takes its lock only while it is half-open or open
LockFree_ClosedUnlocked(b) == lockOwner[b] = NoThread \/ breakers[b].state = "closed"

\* mutant: the breaker runs the guarded function without taking its lock
LockFree_Unlocked(b) == TRUE

\* mutant: one lock shared by the breakers of all keys
LockFree_Global(b) == \A x \in Keys \X Threads : lockOwner[x] = NoThread

\* `with self._lock` of CircuitBreaker.call: the lock of breaker object b is free
LockFree(b) == lockOwner[b] = NoThread

\* mutant: the cooldown test also rejects at exactly reset_timeout
StillOpen_Inclusive(b) ==
    b.state = "open" /\ b.opened_at # -1 /\ now <= b.opened_at + ResetTimeout

\* CircuitOpenState.before_call: still cooling down
StillOpen(b) ==
    b.state = "open" /\ b.opened_at # -1 /\ now < b.opened_at + ResetTimeout

\* mutant: once the cooldown is over the breaker closes at once, with no trial
BeforeCall_SkipHalfOpen(b) ==
    IF b.state = "open" THEN [b EXCEPT !.state = "closed"] ELSE b

\* CircuitOpenState.before_call once the cooldown is over: the breaker goes half-open
\* and the call runs as its trial
BeforeCall(b) ==
    IF b.state = "open" THEN [b EXCEPT !.state = "half_open"] ELSE b

\* mutant: the breaker counts every attempt of the failed operation
HandleError_PerAttempt(b) ==
    IF b.state = "half_open"
    THEN [state |-> "open", counter |-> b.counter + S3Attempts, opened_at |-> now]
    ELSE IF b.counter + S3Attempts >= FailMax
    THEN [state |-> "open", counter |-> b.counter + S3Attempts, opened_at |-> now]
    ELSE [b EXCEPT !.counter = b.counter + S3Attempts]

\* mutant: the breaker trips one failure late
HandleError_LateTrip(b) ==
    IF b.state = "half_open"
    THEN [state |-> "open", counter |-> b.counter + 1, opened_at |-> now]
    ELSE IF b.counter + 1 > FailMax
    THEN [state |-> "open", counter |-> b.counter + 1, opened_at |-> now]
    ELSE [b EXCEPT !.counter = b.counter + 1]

\* the breaker after the guarded function raised
HandleError(b) ==
    IF b.state = "half_open"
    THEN [state |-> "open", counter |-> b.counter + 1, opened_at |-> now]
    ELSE IF b.counter + 1 >= FailMax
    THEN [state |-> "open", counter |-> b.counter + 1, opened_at |-> now]
    ELSE [b EXCEPT !.counter = b.counter + 1]

\* mutant: a success while Closed leaves the failure count as it is
HandleSuccess_NoResetWhileClosed(b) ==
    IF b.state = "half_open"
    THEN [b EXCEPT !.state = "closed", !.counter = 0]
    ELSE b

\* mutant: closing after a trial keeps the old failure count
HandleSuccess_KeepCounter(b) ==
    IF b.state = "half_open"
    THEN [b EXCEPT !.state = "closed"]
    ELSE [b EXCEPT !.counter = 0]

\* the breaker after the guarded function returned
HandleSuccess(b) ==
    IF b.state = "half_open"
    THEN [b EXCEPT !.state = "closed", !.counter = 0]
    ELSE [b EXCEPT !.counter = 0]

\* what the breaker raises or returns to the caller of the guarded function
BreakerResult(b, r) ==
    IF r.tag = "raised"
    THEN IF HandleError(b).state = "open"
         THEN Raised("CircuitBreakerError", 0)
         ELSE r
    ELSE r

-----------------------------------------------------------------------------
(* Metrics *)

\* Counter.labels(...).inc()
Inc(name, label) == [counter |-> name, label |-> label]

\* a gauge sample: absent until the first set()
NoGauge == [set |-> FALSE, value |-> 0]
GaugeSet(v) == [set |-> TRUE, value |-> v]

Labels == {LabelOf(k) : k \in Keys}

\* the state object pybreaker hands to a listener, and a STATE_* string
StateObject(name) == [isStr |-> FALSE, name |-> name]

\* S3CircuitListener.state_change: state_to_int.get(new_state.name, -1)
S3StateToInt(new_state) ==
    IF new_state.name = "closed" THEN 0
    ELSE IF new_state.name = "half_open" THEN 1
    ELSE IF new_state.name = "open" THEN 2
    ELSE -1

\* LoggingBreakerListener.state_change:
\* {STATE_CLOSED: 0, STATE_OPEN: 1, STATE_HALF_OPEN: 2}.get(new_state, -1);
\* the keys are strings, so only a string can be found
CustomStateToInt(new_state) ==
    IF ~new_state.isStr THEN -1
    ELSE IF new_state.name = "closed" THEN 0
    ELSE IF new_state.name = "open" THEN 1
    ELSE IF new_state.name = "half_open" THEN 2
    ELSE -1

\* the listener of call c's breaker, run when the breaker goes from state old to new
StateChange(c, g, old, new) ==
    IF old = new THEN g
    ELSE [g EXCEPT ![LabelOf(c.key)] =
             GaugeSet(IF c.kind = "s3" THEN S3StateToInt(StateObject(new))
                      ELSE CustomStateToInt(StateObject(new)))]

\* type(exc).__name__.lower()
Lower(name) ==
    CASE name = "Timeout" -> "timeout"
      [] name = "ConnectionError" -> "connectionerror"
      [] name = "HTTPError" -> "httperror"
      [] name = "ValueError" -> "valueerror"
      [] OTHER -> name

\* CustomApiClient.handle_retry_error: the reason label of the exhausted call
HandleRetryErrorReason(o) ==
    IF Failed(o) THEN Lower(o.exc) ELSE "status_" \o ToString(o.status)

\* get_entity_data: what its except clauses count before they re-raise r
EntityFailureCounts(r, o) ==
    IF r.tag = "raised" /\ r.exc = "HTTPError"
    THEN <<Inc("custom_api_entity_failure_requests", "path")>>
    ELSE IF r.tag = "raised" /\ r.exc = "RetryError"
    THEN <<Inc("custom_entity_retries_total", HandleRetryErrorReason(o)),
           Inc("custom_api_entity_failure_requests", "path")>>
    ELSE <<>>

\* Histogram.labels(...).observe(...)
Obs(name, label) == [histogram |-> name, label |-> label]

\* what one run of the attempt function observes: the `finally` of request() and
\* of guarded_call(); S3Client observes nothing per run of func
AttemptObserves(c) ==
    IF c.kind = "api" THEN <<Obs("api_client_request_duration_seconds", "endpoint")>>
    ELSE IF c.kind = "custom"
         THEN <<Obs("custom_api_entity_request_duration_seconds", "method")>>
    ELSE <<>>

\* _custom_retry_metrics_hook: RETRY_DURATION.labels(..., reason).observe(idle_for)
RetryObserves(reasons) ==
    [i \in 1..Len(reasons) |-> Obs("api_client_retry_duration_seconds", reasons[i])]

\* get_entity_data and handle_retry_error: the duration of the whole call
EntityObserves(r, o) ==
    IF r.tag = "returned"
    THEN <<Obs("custom_api_entity_request_duration_seconds", "method")>>
    ELSE IF r.exc = "RetryError"
    THEN <<Obs("custom_api_entity_retry_duration_seconds", HandleRetryErrorReason(o))>>
    ELSE <<>>

\* guarded() of S3Client._observe: one observation for the whole retried operation
S3Observes(r) ==
    IF r.tag = "returned" THEN <<Obs("s3_success_op_duration_seconds", "operation")>>
    ELSE <<Obs("s3_failure_op_duration_seconds", "operation")>>

\* mutant: only the errors of botocore are counted
S3ErrorCounts_BotoOnly(r) ==
    IF r.tag = "raised" /\ IsBotoError(r.exc) THEN <<Inc("s3_errors_total", r.exc)>> ELSE <<>>

\* guarded() of S3Client._observe: `except Exception as e` counts the error
S3ErrorCounts(r) ==
    IF r.tag = "raised" THEN <<Inc("s3_errors_total", r.exc)>> ELSE <<>>

-----------------------------------------------------------------------------
(* Sessions and classifications *)

NoSession == <<"none", 0>>

\* the requests.Session() that ApiClient.__init__ constructs
ClientSession == <<"client", 0>>

\* ApiClient._get_session: self._session or requests.Session()
GetSession(t) ==
    IF client_session # NoSession THEN client_session ELSE <<t, calls + 1>>

NoClassified == [by |-> "none", raised |-> FALSE, tag |-> ""]

-----------------------------------------------------------------------------
(* State after construction *)

InitCalls ==
    /\ now = 0
    /\ registry = [k \in Keys |-> NoThread]
    /\ breakers = [b \in Keys \X Threads |-> NoBreaker]
    /\ lockOwner = [b \in Keys \X Threads |-> NoThread]
    /\ pc = [t \in Threads |-> "idle"]
    /\ call = [t \in Threads |-> NoCall]
    /\ brk = [t \in Threads |-> NoThread]
    /\ gate = [t \in Threads |-> NoGate]
    /\ attempt_number = [t \in Threads |-> 0]
    /\ outcome = [t \in Threads |-> NoOutcome]
    /\ invocations = [t \in Threads |-> 0]
    /\ delay = [t \in Threads |-> 0]
    /\ retryReasons = [t \in Threads |-> <<>>]
    /\ fnResult = [t \in Threads |-> NoResult]
    /\ result = [t \in Threads |-> NoResult]
    /\ failRun = [k \in Keys |-> 0]
    /\ calls = 0
    /\ history = [t \in Threads |-> <<>>]
    /\ counted = [t \in Threads |-> <<>>]
    /\ gauge = [l \in Labels |-> NoGauge]
    /\ cancelled = [t \in Threads |-> FALSE]
    /\ observed = [t \in Threads |-> <<>>]
    /\ hooked = [t \in Threads |-> <<>>]
    /\ value = [t \in Threads |-> "unset"]
    /\ classified = [t \in Threads |-> NoClassified]
    /\ session = [t \in Threads |-> NoSession]

\* ApiClient.__init__: self._session = requests.Session() if use_persistent_session
\* else None; self.use_session = use_persistent_session
InitSessions(use_persistent_session) ==
    /\ use_session = use_persistent_session
    /\ client_session = IF use_persistent_session THEN ClientSession ELSE NoSession
    /\ sessions = IF use_persistent_session THEN {ClientSession} ELSE {}

\* ApiClient(base_url) with the default retry_policy=RetryPolicy()
Init ==
    /\ retry_policy = RetryPolicy(DefaultAttempts)
    /\ InitCalls
    /\ InitSessions(FALSE)

\* ApiClient(base_url, retry_policy=RetryPolicy(attempts, multiplier, min_wait, max_wait))
InitWait ==
    /\ retry_policy \in WaitPolicies
    /\ InitCalls
    /\ InitSessions(FALSE)

\* ApiClient(base_url, use_persistent_session=...)
InitSession ==
    /\ retry_policy = RetryPolicy(DefaultAttempts)
    /\ InitCalls
    /\ \E p \in BOOLEAN : InitSessions(p)

-----------------------------------------------------------------------------
(* Operations *)

\* the per-call state of a caller that starts call c
StartCall(t, c, first) ==
    /\ pc[t] \in {"idle", "done"}
    /\ calls < MaxCalls
    /\ calls' = calls + 1
    /\ pc' = [pc EXCEPT ![t] = first]
    /\ call' = [call EXCEPT ![t] = c]
    /\ brk' = [brk EXCEPT ![t] = NoThread]
    /\ gate' = [gate EXCEPT ![t] = NoGate]
    /\ attempt_number' = [attempt_number EXCEPT ![t] = IF first = "attempt" THEN 1 ELSE 0]
    /\ outcome' = [outcome EXCEPT ![t] = NoOutcome]
    /\ invocations' = [invocations EXCEPT ![t] = 0]
    /\ delay' = [delay EXCEPT ![t] = 0]
    /\ retryReasons' = [retryReasons EXCEPT ![t] = <<>>]
    /\ fnResult' = [fnResult EXCEPT ![t] = NoResult]
    /\ result' = [result EXCEPT ![t] =
                     IF c.kind = "api" /\ first = "done"
                     THEN Raised("TypeError", 0) ELSE NoResult]
    /\ history' = [history EXCEPT ![t] = <<>>]
    /\ counted' = [counted EXCEPT ![t] =
                      IF c.via = "get_entity_data"
                      THEN <<Inc("custom_api_entity_requests", "path")>>
                      ELSE <<>>]
    /\ cancelled' = [cancelled EXCEPT ![t] = FALSE]
    /\ observed' = [observed EXCEPT ![t] = <<>>]
    /\ hooked' = [hooked EXCEPT ![t] = <<>>]
    /\ value' = [value EXCEPT ![t] =
                    IF c.via = "health_check" /\ first = "done"
                    THEN HealthCheck(Raised("TypeError", 0)) ELSE "unset"]
    /\ LET s == IF c.kind # "api" THEN NoSession ELSE GetSession(t)
       IN  /\ session' = [session EXCEPT ![t] = s]
           /\ sessions' = IF c.kind # "api" THEN sessions
                          ELSE IF first = "done" /\ ~use_session
                          THEN sessions \ {s}
                          ELSE sessions \cup {s}
    /\ UNCHANGED <<now, retry_policy, registry, breakers, lockOwner, failRun, gauge,
                   classified, use_session, client_session>>

\* ApiClient._make_request(..., retry_policy=p)
BeginApi(t, p) ==
    StartCall(t, [kind |-> "api", key |-> "none", policy |-> p, via |-> "none"],
              IF BuildRaises(p) THEN "done" ELSE "attempt")

\* ApiClient._make_request(..., retry_policy=None): the client's own policy
BeginApiDefault(t) ==
    StartCall(t, [kind |-> "api", key |-> "none", policy |-> retry_policy, via |-> "none"],
              "attempt")

\* ApiClient.get(endpoint) (post, put, delete and patch alike): _make_request with
\* the client's own policy, then _handle_response
BeginGet(t) ==
    StartCall(t, [kind |-> "api", key |-> "none", policy |-> retry_policy, via |-> "get"],
              "attempt")

\* ApiClient.health_check(): _make_request("GET", "/health",
\* retry_policy=RetryPolicy.no_retry())
BeginHealthCheck(t) ==
    StartCall(t, [kind |-> "api", key |-> "none", policy |-> NoRetryPolicy,
                  via |-> "health_check"],
              IF BuildRaises(NoRetryPolicy) THEN "done" ELSE "attempt")

\* CustomApiClient.get_entity_data(path): api_client.get with the client's own policy
BeginEntity(t) ==
    StartCall(t, [kind |-> "api", key |-> "none", policy |-> retry_policy,
                  via |-> "get_entity_data"], "attempt")

\* S3Client._observe(operation, bucket, func)
BeginS3(t, k) ==
    StartCall(t, [kind |-> "s3", key |-> k, policy |-> S3RetryPolicy, via |-> "none"], "check")

\* S3Client.file_exists(bucket, key): _observe("exists", bucket, _check)
BeginFileExists(t, k) ==
    StartCall(t, [kind |-> "s3", key |-> k, policy |-> S3RetryPolicy,
                  via |-> "file_exists"], "check")

\* S3Client._observe(operation, "K", func) on a second S3Client object
BeginS3Other(t) == BeginS3(t, OtherClientK)

\* CustomApiClient._call_with_metrics(method, endpoint, call_fn)
BeginCustom(t) ==
    StartCall(t, [kind |-> "custom", key |-> CustomKey, policy |-> NoRetryPolicy,
                     via |-> "none"], "check")

\* _get_breaker: `if key not in self._breakers`
GetBreakerCheck(t) ==
    /\ pc[t] = "check"
    /\ pc' = [pc EXCEPT ![t] = IF registry[call[t].key] = NoThread THEN "store" ELSE "fetch"]
    /\ UNCHANGED <<now, retry_policy, registry, breakers, lockOwner, call, brk, gate, attempt_number,
                   outcome, invocations, delay, retryReasons, fnResult, result, failRun, calls,
                   history, counted, gauge, cancelled,
                   observed, hooked, value,
                   classified, use_session, client_session, sessions, session>>

\* _get_breaker: `self._breakers[key] = CircuitBreaker(fail_max=3, reset_timeout=300, ...)`
GetBreakerStore(t) ==
    /\ pc[t] = "store"
    /\ breakers' = [breakers EXCEPT ![<<call[t].key, t>>] = NewBreaker]
    /\ registry' = [registry EXCEPT ![call[t].key] = t]
    /\ pc' = [pc EXCEPT ![t] = "fetch"]
    /\ UNCHANGED <<now, retry_policy, lockOwner, call, brk, gate, attempt_number, outcome, invocations,
                   delay, retryReasons, fnResult, result, failRun, calls,
                   history, counted, gauge, cancelled,
                   observed, hooked, value,
                   classified, use_session, client_session, sessions, session>>

\* _get_breaker: `return self._breakers[key]`
GetBreakerFetch(t) ==
    /\ pc[t] = "fetch"
    /\ brk' = [brk EXCEPT ![t] = registry[call[t].key]]
    /\ pc' = [pc EXCEPT ![t] = "gate"]
    /\ UNCHANGED <<now, retry_policy, registry, breakers, lockOwner, call, gate, attempt_number, outcome,
                   invocations, delay, retryReasons, fnResult, result, failRun, calls,
                   history, counted, gauge, cancelled,
                   observed, hooked, value,
                   classified, use_session, client_session, sessions, session>>

\* guarded(): CircuitBreaker.call takes the breaker's lock, then the state decides
BreakerGate(t) ==
    /\ pc[t] = "gate"
    /\ LockFree(Breaker(t))
    /\ LET b == breakers[Breaker(t)]
           seen == [state |-> b.state,
                    elapsed |-> IF b.opened_at = -1 THEN 0 ELSE now - b.opened_at,
                    admitted |-> ~StillOpen(b)]
       IN  /\ gate' = [gate EXCEPT ![t] = seen]
           /\ IF StillOpen(b)
              THEN /\ result' = [result EXCEPT ![t] = Raised("CircuitBreakerError", 0)]
                   /\ value' = [value EXCEPT ![t] =
                                    IF call[t].via = "file_exists"
                                    THEN FileExists(Raised("CircuitBreakerError", 0))
                                    ELSE @]
                   /\ pc' = [pc EXCEPT ![t] = "done"]
                   /\ UNCHANGED <<breakers, lockOwner, attempt_number, gauge>>
              ELSE /\ breakers' = [breakers EXCEPT ![Breaker(t)] = BeforeCall(b)]
                   /\ lockOwner' = [lockOwner EXCEPT ![Breaker(t)] = t]
                   /\ gauge' = StateChange(call[t], gauge, b.state, BeforeCall(b).state)
                   /\ attempt_number' = [attempt_number EXCEPT ![t] = 1]
                   /\ pc' = [pc EXCEPT ![t] = "attempt"]
                   /\ UNCHANGED <<result, value>>
    /\ UNCHANGED <<now, retry_policy, registry, call, brk, outcome, invocations, delay, retryReasons,
                   fnResult, failRun, calls, history, counted, cancelled,
                   observed, hooked,
                   classified, use_session, client_session, sessions, session>>

OutcomesOf(c) ==
    IF c.via = "get" THEN GetOutcomes
    ELSE IF c.kind = "api" THEN ApiOutcomes
    ELSE IF c.kind = "s3" THEN S3Outcomes
    ELSE CustomOutcomes

\* one run of the attempt function (request(), func(), call_fn()) with outcome o,
\* and the retry loop's decision on it
Attempt(t, o) ==
    /\ pc[t] = "attempt"
    /\ o \in OutcomesOf(call[t])
    /\ invocations' = [invocations EXCEPT ![t] = @ + 1]
    /\ outcome' = [outcome EXCEPT ![t] = o]
    /\ history' = [history EXCEPT ![t] = Append(@, o)]
    /\ LET c == call[t]
           it == IF c.kind = "custom"
                 THEN [next |-> "finish", res |-> OutcomeResult(o), sleep |-> 0,
                       reasons |-> <<>>, hooks |-> <<>>]
                 ELSE RetryingIter(c, attempt_number[t], o)
           res == RaiseForStatus(it.res)
       IN  /\ hooked' = [hooked EXCEPT ![t] = it.hooks]
           /\ IF it.next = "sleep"
              THEN /\ pc' = [pc EXCEPT ![t] = "sleep"]
                   /\ delay' = [delay EXCEPT ![t] = it.sleep]
                   /\ retryReasons' = [retryReasons EXCEPT ![t] = @ \o it.reasons]
                   /\ observed' = [observed EXCEPT ![t] =
                                       @ \o AttemptObserves(c) \o RetryObserves(it.reasons)]
                   /\ UNCHANGED <<fnResult, result, counted, value, sessions>>
              ELSE IF c.kind = "api"
              THEN /\ pc' = [pc EXCEPT ![t] = "done"]
                   /\ result' = [result EXCEPT ![t] = res]
                   /\ value' = [value EXCEPT ![t] =
                                    IF c.via = "health_check" THEN HealthCheck(res)
                                    ELSE IF c.via # "none" /\ res.tag = "returned"
                                    THEN HandleResponse(o) ELSE "unset"]
                   /\ counted' = [counted EXCEPT ![t] =
                                     IF c.via = "get_entity_data"
                                     THEN @ \o EntityFailureCounts(res, o)
                                     ELSE @]
                   /\ observed' = [observed EXCEPT ![t] =
                                       @ \o AttemptObserves(c)
                                         \o (IF c.via = "get_entity_data"
                                             THEN EntityObserves(res, o) ELSE <<>>)]
                   /\ sessions' = IF use_session THEN sessions
                                  ELSE sessions \ {session[t]}
                   /\ UNCHANGED <<delay, retryReasons, fnResult>>
              ELSE /\ pc' = [pc EXCEPT ![t] = "exit"]
                   /\ fnResult' = [fnResult EXCEPT ![t] = it.res]
                   /\ counted' = [counted EXCEPT ![t] =
                                     IF c.kind = "s3" THEN @ \o S3ErrorCounts(it.res) ELSE @]
                   /\ observed' = [observed EXCEPT ![t] =
                                       @ \o AttemptObserves(c)
                                         \o (IF c.kind = "s3" THEN S3Observes(it.res) ELSE <<>>)]
                   /\ UNCHANGED <<delay, retryReasons, result, value, sessions>>
    /\ UNCHANGED <<now, retry_policy, registry, breakers, lockOwner, call, brk, gate, attempt_number,
                   failRun, calls, gauge, cancelled,
                   classified, use_session, client_session, session>>

\* the backoff wait ends and the loop goes to the next attempt
Sleep(t) ==
    /\ pc[t] = "sleep"
    /\ pc' = [pc EXCEPT ![t] = "attempt"]
    /\ attempt_number' = [attempt_number EXCEPT ![t] = @ + 1]
    /\ UNCHANGED <<now, retry_policy, registry, breakers, lockOwner, call, brk, gate, outcome,
                   invocations, delay, retryReasons, fnResult, result, failRun, calls,
                   history, counted, gauge, cancelled,
                   observed, hooked, value,
                   classified, use_session, client_session, sessions, session>>

\* the guarded function ended: the breaker counts it, may change state, and
\* releases its lock
BreakerExit(t) ==
    /\ pc[t] = "exit"
    /\ LET b == breakers[Breaker(t)]
           r == fnResult[t]
       IN  /\ breakers' = [breakers EXCEPT ![Breaker(t)] =
                              IF r.tag = "raised" THEN HandleError(b) ELSE HandleSuccess(b)]
           /\ result' = [result EXCEPT ![t] = BreakerResult(b, r)]
           /\ value' = [value EXCEPT ![t] =
                            IF call[t].via = "file_exists"
                            THEN FileExists(BreakerResult(b, r)) ELSE @]
           /\ failRun' = [failRun EXCEPT ![call[t].key] =
                             IF r.tag = "raised" THEN @ + 1 ELSE 0]
           /\ gauge' = StateChange(call[t], gauge, b.state,
                                    IF r.tag = "raised" THEN HandleError(b).state
                                    ELSE HandleSuccess(b).state)
    /\ lockOwner' = [lockOwner EXCEPT ![Breaker(t)] = NoThread]
    /\ pc' = [pc EXCEPT ![t] = "done"]
    /\ UNCHANGED <<now, retry_policy, registry, call, brk, gate, attempt_number, outcome, invocations,
                   delay, retryReasons, fnResult, calls, history, counted, cancelled,
                   observed, hooked,
                   classified, use_session, client_session, sessions, session>>

\* the caller's own deadline passes while the call waits between two attempts;
\* _make_request takes no deadline and the Retrying loop has no stop on it
Cancel(t) ==
    /\ pc[t] = "sleep"
    /\ ~cancelled[t]
    /\ cancelled' = [cancelled EXCEPT ![t] = TRUE]
    /\ UNCHANGED <<now, retry_policy, registry, breakers, lockOwner, pc, call, brk, gate,
                   attempt_number, outcome, invocations, delay, retryReasons, fnResult, result,
                   failRun, calls, history, counted, gauge,
                   observed, hooked, value,
                   classified, use_session, client_session, sessions, session>>

\* ApiClient.close(): `if self._session: self._session.close(); self._session = None`
Close ==
    /\ sessions' = sessions \ {client_session}
    /\ client_session' = NoSession
    /\ UNCHANGED <<now, retry_policy, registry, breakers, lockOwner, pc, call, brk, gate,
                   attempt_number, outcome, invocations, delay, retryReasons, fnResult, result,
                   failRun, calls, history, counted, gauge, cancelled,
                   observed, hooked, value, classified, use_session, session>>

\* a reason resolver is called on a retry state whose outcome is o
Classify(t, resolver, o) ==
    /\ pc[t] = "idle"
    /\ outcome' = [outcome EXCEPT ![t] = o]
    /\ classified' = [classified EXCEPT ![t] =
                         [by |-> resolver, raised |-> ReasonResolver(resolver, o).raised,
                          tag |-> ReasonResolver(resolver, o).tag]]
    /\ UNCHANGED <<now, retry_policy, registry, breakers, lockOwner, pc, call, brk, gate,
                   attempt_number, invocations, delay, retryReasons, fnResult, result,
                   failRun, calls, history, counted, gauge, cancelled,
                   observed, hooked, value, use_session, client_session, sessions, session>>

\* time passes
Tick ==
    /\ now + TimeUnit <= MaxTime
    /\ now' = now + TimeUnit
    /\ UNCHANGED <<retry_policy, registry, breakers, lockOwner, pc, call, brk, gate, attempt_number,
                   outcome, invocations, delay, retryReasons, fnResult, result, failRun, calls,
                   history, counted, gauge, cancelled,
                   observed, hooked, value,
                   classified, use_session, client_session, sessions, session>>

-----------------------------------------------------------------------------
(* Specifications *)

\* one caller, every kind of call
Next ==
    \/ \E p \in Policies : BeginApi("t1", p)
    \/ BeginApiDefault("t1")
    \/ BeginEntity("t1")
    \/ BeginS3("t1", "K")
    \/ BeginCustom("t1")
    \/ GetBreakerCheck("t1")
    \/ GetBreakerStore("t1")
    \/ GetBreakerFetch("t1")
    \/ BreakerGate("t1")
    \/ \E o \in ApiOutcomes \cup S3Outcomes \cup CustomOutcomes : Attempt("t1", o)
    \/ Sleep("t1")
    \/ BreakerExit("t1")
    \/ Tick

Spec == Init /\ [][Next]_vars

\* concurrent callers of the breaker-guarded clients
NextConc ==
    \/ BeginS3("t1", "K")
    \/ \E k \in S3Keys : BeginS3("t2", k)
    \/ \E t \in Threads : GetBreakerCheck(t)
    \/ \E t \in Threads : GetBreakerStore(t)
    \/ \E t \in Threads : GetBreakerFetch(t)
    \/ \E t \in Threads : BreakerGate(t)
    \/ \E t \in Threads, o \in ConcOutcomes : Attempt(t, o)
    \/ \E t \in Threads : Sleep(t)
    \/ \E t \in Threads : BreakerExit(t)
    \/ Tick

SpecConc == Init /\ [][NextConc]_vars

\* one client with a drawn policy, calls with its own policy
NextWait ==
    \/ BeginApiDefault("t1")
    \/ \E o \in ApiOutcomes : Attempt("t1", o)
    \/ Sleep("t1")

SpecWait == InitWait /\ [][NextWait]_vars

\* one caller, two S3Client objects, bucket K
NextClients ==
    \/ BeginS3("t1", "K")
    \/ BeginS3Other("t1")
    \/ GetBreakerCheck("t1")
    \/ GetBreakerStore("t1")
    \/ GetBreakerFetch("t1")
    \/ BreakerGate("t1")
    \/ \E o \in S3Outcomes : Attempt("t1", o)
    \/ Sleep("t1")
    \/ BreakerExit("t1")
    \/ Tick

SpecClients == Init /\ [][NextClients]_vars

\* one caller of ApiClient whose own deadline may pass during a backoff wait
NextCancel ==
    \/ \E p \in Policies : BeginApi("t1", p)
    \/ \E o \in ApiOutcomes : Attempt("t1", o)
    \/ Sleep("t1")
    \/ Cancel("t1")

SpecCancel == Init /\ [][NextCancel]_vars

\* one caller of ApiClient.get and ApiClient.health_check, responses with headers
\* and bodies
NextResponse ==
    \/ BeginGet("t1")
    \/ BeginHealthCheck("t1")
    \/ \E o \in GetOutcomes : Attempt("t1", o)
    \/ Sleep("t1")

SpecResponse == Init /\ [][NextResponse]_vars

\* reason resolvers called on retry states
NextClassify ==
    \E t \in Threads, resolver \in Resolvers, o \in ClassifyOutcomes :
        Classify(t, resolver, o)

SpecClassify == Init /\ [][NextClassify]_vars

\* requests and close() calls on one ApiClient, with or without a persistent session
NextSession ==
    \/ \E t \in Threads : BeginApiDefault(t)
    \/ \E t \in Threads, o \in {Resp(200), Resp(503), Exc("Timeout")} : Attempt(t, o)
    \/ \E t \in Threads : Sleep(t)
    \/ Close

SpecSession == InitSession /\ [][NextSession]_vars

\* one caller of S3Client.file_exists on bucket K
NextExists ==
    \/ BeginFileExists("t1", "K")
    \/ GetBreakerCheck("t1")
    \/ GetBreakerStore("t1")
    \/ GetBreakerFetch("t1")
    \/ BreakerGate("t1")
    \/ \E o \in S3Outcomes : Attempt("t1", o)
    \/ Sleep("t1")
    \/ BreakerExit("t1")
    \/ Tick

SpecExists == Init /\ [][NextExists]_vars

-----------------------------------------------------------------------------
(* Vocabulary of the properties *)

\* the registered breaker of key k
RegBreaker(k) == breakers[<<k, registry[k]>>]

\* the caller is inside a breaker, between admission and the breaker's verdict
InFlight(t) == pc[t] \in {"attempt", "sleep", "exit"} /\ call[t].kind # "api"

\* the caller is running the trial of a half-open breaker
TrialInFlight(t) == InFlight(t) /\ breakers[Breaker(t)].state = "half_open"

\* the call was rejected by its breaker
Rejected(t) == pc[t] = "done" /\ gate[t].state # "none" /\ ~gate[t].admitted

Clamp(x, lo, hi) == IF x < lo THEN lo ELSE IF x > hi THEN hi ELSE x

\* the failures the error taxonomy calls transient
TransientFailure(o) ==
    \/ o.exc \in {"Timeout", "ConnectionError"}
    \/ ~Failed(o) /\ (o.status >= 500 \/ o.status = 429)

\* the failures that are permanent: a 4xx other than 429, an error that is
\* no transport error; for the storage client, what is_retryable_exception refuses
PermanentFailure(c, o) ==
    IF c.kind = "s3" THEN Failed(o) /\ ~is_retryable_exception(o)
    ELSE \/ ~Failed(o) /\ o.status >= 400 /\ o.status < 500 /\ o.status # 429
         \/ Failed(o) /\ ~IsRequestException(o.exc)

\* a returned 5xx response
Is5xx(o) == ~Failed(o) /\ o.status >= 500

\* the reason 5xx, n times
AllFiveXX(n) == [i \in 1..n |-> "5xx"]

\* the labels, in order, of the increments of counter `name` in call t
CountedLabels(t, name) ==
    LET RECURSIVE Pick(_)
        Pick(q) == IF q = <<>> THEN <<>>
                   ELSE IF Head(q).counter = name THEN <<Head(q).label>> \o Pick(Tail(q))
                   ELSE Pick(Tail(q))
    IN  Pick(counted[t])

\* the labels, in order, of the observations of histogram `name` in call t
ObservedLabels(t, name) ==
    LET RECURSIVE Pick(_)
        Pick(q) == IF q = <<>> THEN <<>>
                   ELSE IF Head(q).histogram = name THEN <<Head(q).label>> \o Pick(Tail(q))
                   ELSE Pick(Tail(q))
    IN  Pick(observed[t])

\* the histograms a client reports the duration of its attempts to
AttemptHistograms(c) ==
    IF c.kind = "api" THEN {"api_client_request_duration_seconds"}
    ELSE IF c.kind = "custom" THEN {"custom_api_entity_request_duration_seconds"}
    ELSE {"s3_success_op_duration_seconds", "s3_failure_op_duration_seconds"}

\* the number of attempt-duration observations of call t
AttemptObservations(t) ==
    Cardinality({i \in 1..Len(observed[t]) :
                    observed[t][i].histogram \in AttemptHistograms(call[t])})

\* the reason tag of a raised error: its kind
ClassifiedKind(name) ==
    IF name = "Timeout" THEN "timeout"
    ELSE IF name = "ConnectionError" THEN "connection_error"
    ELSE Lower(name)

\* the reason tag of an outcome
ClassifiedReason(o) ==
    IF Failed(o) THEN ClassifiedKind(o.exc)
    ELSE IF o.status >= 500 THEN "5xx"
    ELSE IF o.status = 429 THEN "rate_limit"
    ELSE "status_" \o ToString(o.status)

\* the three retry observers, in the order RetryPolicy.build chains them
AllObservers ==
    <<"before_sleep_log", "_log_retry_attempt_hook", "_custom_retry_metrics_hook">>

\* the key of the breaker that guards the calls of the client the call goes through
ClientKey(c) == IF c.via = "get_entity_data" THEN CustomKey ELSE c.key

\* the breaker transitions of the state machine
LegalTransitions ==
    {<<"closed", "open">>, <<"open", "half_open">>,
     <<"half_open", "closed">>, <<"half_open", "open">>}

\* the result exposes a structured application error code
HasErrorCode(o) == "body" \in DOMAIN o /\ o.body = "code"

\* the tags app_error_<code>, the empty code included
AppErrorTags == {"app_error_", "app_error_E42"}

\* the caller is inside ApiClient._make_request
InRequest(t) == call[t].kind = "api" /\ pc[t] \in {"attempt", "sleep"}

\* the state codes of the breaker-state gauge: 0 = Closed, 1 = Open, 2 = HalfOpen
StateCode(state) ==
    IF state = "closed" THEN 0 ELSE IF state = "open" THEN 1 ELSE 2

-----------------------------------------------------------------------------
(* C1 *)

\* C1: in every call the attempt function has run at most max_attempts times
\* (the policy's attempts for ApiClient, 2 for S3Client, 1 for CustomApiClient).
C1_AtMostMaxAttempts ==
    \A t \in Threads : invocations[t] <= MaxAttemptsOf(call[t])

\* a call that used its whole budget of at least two attempts
C1_Witness ==
    \E t \in Threads :
        /\ pc[t] = "done"
        /\ call[t].kind = "api"
        /\ call[t].policy.attempts >= 2
        /\ invocations[t] = call[t].policy.attempts
        /\ result[t].exc = "RetryError"

(* C2 *)

\* C2: a finished ApiClient call whose attempts all had retryable outcomes (a raised
\* timeout or connection error, a returned 5xx) ran the attempt exactly max_attempts
\* times and raised an error carrying the last outcome (RetryError wrapping it, or the
\* raised error itself).
C2_ExactlyNThenExhausted ==
    \A t \in Threads :
        (/\ pc[t] = "done"
         /\ call[t].kind = "api"
         /\ ~call[t].policy.no_retry
         /\ \/ outcome[t].exc \in {"Timeout", "ConnectionError"}
            \/ ~Failed(outcome[t]) /\ outcome[t].status >= 500)
        => /\ invocations[t] = call[t].policy.attempts
           /\ result[t].tag = "raised"
           /\ result[t].exc \in {"RetryError", outcome[t].exc}
           /\ result[t].status = outcome[t].status

(* C3 *)

\* C3: no call waits to retry after a permanent failure: a permanent failure ends
\* the call on its first occurrence.
C3_PermanentNeverRetried ==
    \A t \in Threads : pc[t] = "sleep" => ~PermanentFailure(call[t], outcome[t])

(* C4 *)

\* C4: no ApiClient call ends on a transient failure while attempts remain in its
\* budget: such a failure is always followed by another attempt.
C4_TransientRetriedWithinBudget ==
    \A t \in Threads :
        (/\ pc[t] = "done"
         /\ call[t].kind = "api"
         /\ TransientFailure(outcome[t]))
        => invocations[t] = call[t].policy.attempts

(* C5 *)

\* C5: the breaker of a key is Closed exactly while fewer than fail_max consecutive
\* failing calls have been made on the key, so it opens at the fail_max-th; a call
\* admitted after that is the trial of an Open breaker, and a call the breaker
\* rejects raises CircuitBreakerError without one run of the attempt function.
C5_OpensAfterFailMax ==
    /\ \A k \in Keys :
          registry[k] # NoThread =>
              (RegBreaker(k).state = "closed" <=> failRun[k] < FailMax)
    /\ \A t \in Threads :
          (InFlight(t) /\ failRun[call[t].key] >= FailMax) => gate[t].state = "open"
    /\ \A t \in Threads :
          Rejected(t) => /\ invocations[t] = 0
                         /\ result[t] = Raised("CircuitBreakerError", 0)

\* the call after fail_max failing calls on K was rejected
C5_Witness ==
    /\ failRun["K"] = FailMax
    /\ calls = FailMax + 1
    /\ Rejected("t1")
    /\ call["t1"].key = "K"
    /\ invocations["t1"] = 0

(* C6 *)

\* C6: a call that finds its breaker Open less than reset_timeout after opened_at is
\* rejected with CircuitBreakerError and never runs the attempt; a call that finds it
\* Open at reset_timeout or later is admitted, and the breaker is HalfOpen while
\* that call runs.
C6_OpenGate ==
    \A t \in Threads :
        gate[t].state = "open" =>
            /\ gate[t].elapsed < ResetTimeout =>
                  /\ Rejected(t)
                  /\ invocations[t] = 0
                  /\ result[t] = Raised("CircuitBreakerError", 0)
            /\ gate[t].elapsed >= ResetTimeout =>
                  /\ gate[t].admitted
                  /\ InFlight(t) => breakers[Breaker(t)].state = "half_open"

\* a call admitted as the trial exactly reset_timeout after the breaker opened
C6_Witness ==
    \E t \in Threads :
        /\ gate[t].state = "open"
        /\ gate[t].elapsed = ResetTimeout
        /\ pc[t] = "attempt"
        /\ breakers[Breaker(t)].state = "half_open"

(* C7 *)

C8_TrialVerdict ==
    [][\A t \in Threads :
          (pc[t] = "exit" /\ pc'[t] = "done") =>
              LET b == breakers[Breaker(t)]
                  b2 == breakers'[Breaker(t)]
              IN  /\ (b.state = "half_open" /\ fnResult[t].tag = "returned")
                     => (b2.state = "closed" /\ b2.counter = 0)
                  /\ (b.state = "half_open" /\ fnResult[t].tag = "raised")
                     => /\ b2.state = "open"
                        /\ b2.opened_at = now
                        /\ now < b2.opened_at + ResetTimeout
                  /\ (b.state = "closed" /\ b.counter = 0 /\ fnResult[t].tag = "raised"
                      /\ FailMax > 1)
                     => (b2.state = "closed" /\ b2.counter = 1)
      ]_vars

\* after a successful trial, one failure: the breaker that had opened is Closed
\* with one failure counted
C8_Witness ==
    /\ registry["K"] # NoThread
    /\ RegBreaker("K").opened_at # -1
    /\ RegBreaker("K").state = "closed"
    /\ RegBreaker("K").counter = 1
    /\ failRun["K"] = 1
    /\ pc["t1"] = "done"

(* C9 *)

\* a caller at the gate of a breaker while no other caller is inside a breaker of
\* the same key can enter at once
NotBlockedByOtherKeys ==
    \A t \in Threads :
        (/\ pc[t] = "gate"
         /\ \A u \in Threads \ {t} : InFlight(u) => call[u].key # call[t].key)
        => ENABLED BreakerGate(t)

\* a step of a caller leaves the registry entry, the breakers, their locks and the
\* failure run of every key other than its call's key as they were
OtherKeysUntouched ==
    \A t \in Threads :
        pc'[t] # pc[t] =>
            \A k \in Keys \ {call'[t].key} :
                /\ registry'[k] = registry[k]
                /\ failRun'[k] = failRun[k]
                /\ \A u \in Threads :
                      /\ breakers'[<<k, u>>] = breakers[<<k, u>>]
                      /\ lockOwner'[<<k, u>>] = lockOwner[<<k, u>>]

\* a call its breaker rejected made no attempt
RejectedWithoutAttempt ==
    \A t \in Threads :
        Rejected(t) => /\ invocations[t] = 0
                       /\ result[t].exc = "CircuitBreakerError"

\* C9: breakers of distinct keys are independent: calls on one key never change the
\* breaker state, counter or lock of another key and never make a caller of
\* another key wait, and a call rejected by the open breaker of its key makes no
\* attempt.
C9_KeysIndependent ==
    /\ [](NotBlockedByOtherKeys /\ RejectedWithoutAttempt)
    /\ [][OtherKeysUntouched]_vars

\* K's breaker is Open and has rejected a call, and a call on K2 has succeeded
C9_Witness ==
    /\ registry["K"] # NoThread
    /\ RegBreaker("K").state = "open"
    /\ Rejected("t1")
    /\ call["t1"].key = "K"
    /\ call["t2"].key = "K2"
    /\ pc["t2"] = "done"
    /\ result["t2"].tag = "returned"
    /\ RegBreaker("K2").state = "closed"
    /\ RegBreaker("K2").counter = 0

(* C10 *)

\* C10 as claimed: for every policy with min_wait <= max_wait, the wait after failed
\* attempt k is clamp(multiplier * 2^(k-1), min_wait, max_wait) and lies within
\* [min_wait, max_wait].
C10_DelayIsClampAnyBounds ==
    \A t \in Threads :
        LET p == call[t].policy
        IN  (pc[t] = "sleep" /\ p.min_wait <= p.max_wait) =>
                /\ delay[t] = Clamp(p.multiplier * Pow2(attempt_number[t] - 1),
                                    p.min_wait, p.max_wait)
                /\ p.min_wait <= delay[t]
                /\ delay[t] <= p.max_wait

\* C10 as amended: for every policy with 0 <= min_wait <= max_wait, the wait after
\* failed attempt k is clamp(multiplier * 2^(k-1), min_wait, max_wait) and lies
\* within [min_wait, max_wait].
C10_DelayIsClamp ==
    \A t \in Threads :
        LET p == call[t].policy
        IN  (pc[t] = "sleep" /\ 0 <= p.min_wait /\ p.min_wait <= p.max_wait) =>
                /\ delay[t] = Clamp(p.multiplier * Pow2(attempt_number[t] - 1),
                                    p.min_wait, p.max_wait)
                /\ p.min_wait <= delay[t]
                /\ delay[t] <= p.max_wait

\* the wait after the second failed attempt, strictly between the two bounds
C10_Witness ==
    /\ pc["t1"] = "sleep"
    /\ attempt_number["t1"] = 2
    /\ call["t1"].policy.multiplier = 2
    /\ call["t1"].policy.min_wait = 1
    /\ call["t1"].policy.max_wait = 5
    /\ delay["t1"] = 4

(* C11 *)

\* C11: in an ApiClient call with a retrying policy of N attempts, while the j < N
\* attempts made so far all returned a 5xx response the call goes on (it waits or
\* makes attempt j+1) with the retry counter incremented j times, each with reason
\* 5xx; and a call whose first j < N attempts returned 5xx and whose attempt j+1
\* returned 200 ran the attempt exactly j+1 times, returned that response and
\* incremented the retry counter exactly j times with reason 5xx.
C11_ScenarioA ==
    \A t \in Threads :
        LET h == history[t]
            n == call[t].policy.attempts
        IN  (call[t].kind = "api" /\ ~call[t].policy.no_retry) =>
                /\ (Len(h) < n /\ \A i \in 1..Len(h) : Is5xx(h[i])) =>
                       /\ pc[t] \in {"sleep", "attempt"}
                       /\ invocations[t] = Len(h)
                       /\ retryReasons[t] = AllFiveXX(Len(h))
                /\ (/\ pc[t] = "done"
                    /\ Len(h) >= 1
                    /\ Len(h) <= n
                    /\ \A i \in 1..(Len(h) - 1) : Is5xx(h[i])
                    /\ h[Len(h)] = Resp(200)) =>
                       /\ invocations[t] = Len(h)
                       /\ result[t] = Returned(200)
                       /\ retryReasons[t] = AllFiveXX(Len(h) - 1)

\* scenario A itself: max_attempts = 3, two 5xx responses, then success
C11_Witness ==
    /\ pc["t1"] = "done"
    /\ call["t1"].kind = "api"
    /\ call["t1"].policy = RetryPolicy(3)
    /\ history["t1"] = <<Resp(503), Resp(503), Resp(200)>>
    /\ invocations["t1"] = 3
    /\ result["t1"] = Returned(200)
    /\ retryReasons["t1"] = <<"5xx", "5xx">>

(* C12 *)

\* C12: a call made with the no-retry policy never waits for a retry; when it has
\* ended it ran the attempt exactly once and incremented the retry counter 0 times,
\* and when the attempt raised a timeout the call raised the timeout (as it is, or
\* wrapped in RetryError).
C12_NoRetryTimeout ==
    \A t \in Threads :
        (call[t].kind = "api" /\ call[t].policy.no_retry) =>
            /\ pc[t] # "sleep"
            /\ pc[t] = "done" =>
                   /\ invocations[t] = 1
                   /\ retryReasons[t] = <<>>
                   /\ history[t] = <<Exc("Timeout")>> =>
                          /\ result[t].tag = "raised"
                          /\ result[t].exc \in {"Timeout", "RetryError"}

(* C13 *)

\* C13: for every key at most one breaker object was ever created, every caller
\* that got a breaker from _get_breaker holds the registered one, and no failure is
\* counted on a breaker that is not the registered one.
C13_SingleFlight ==
    /\ \A k \in Keys :
          Cardinality({u \in Threads : breakers[<<k, u>>] # NoBreaker}) <= 1
    /\ \A t \in Threads :
          brk[t] # NoThread => brk[t] = registry[call[t].key]
    /\ \A k \in Keys, u \in Threads :
          u # registry[k] => breakers[<<k, u>>].counter = 0

(* C14 *)

\* at most one registered breaker per key (bucket, or category:org_id) in the
\* whole process, whichever client object holds it, and a registered entry is a
\* breaker that was created
OneBreakerPerKey ==
    /\ \A k1 \in Keys, k2 \in Keys :
          (/\ LabelOf(k1) = LabelOf(k2)
           /\ registry[k1] # NoThread
           /\ registry[k2] # NoThread) => k1 = k2
    /\ \A k \in Keys : registry[k] # NoThread => RegBreaker(k) # NoBreaker

\* an entry once present is never removed or replaced
RegistryAppendOnly ==
    \A k \in Keys : registry[k] # NoThread => registry'[k] = registry[k]

\* C14: the breaker registry is append-only and process-wide: at most one breaker
\* exists per distinct key in the whole process, also when several client objects
\* are in use, and an entry once present is never removed or replaced.
C14_RegistryProcessWide ==
    /\ []OneBreakerPerKey
    /\ [][RegistryAppendOnly]_vars

(* C15 *)

\* C15: a call its breaker rejected incremented exactly one counter, the blocked
\* counter, exactly once, raised CircuitBreakerError and never ran the attempt
\* function.
C15_RejectedCountedOnce ==
    \A t \in Threads :
        Rejected(t) =>
            /\ Len(counted[t]) = 1
            /\ result[t] = Raised("CircuitBreakerError", 0)
            /\ invocations[t] = 0
            /\ history[t] = <<>>

(* C16 *)

\* C16: a get_entity_data call that ended in failure, whatever the terminal error,
\* went through a breaker that was told of the failure, incremented the failure
\* counter exactly once, incremented the retry-exhaustion counter once with the
\* last classified reason when it ended by exhausting its retries, and raised the
\* error to its caller.
C16_FailureCounted ==
    \A t \in Threads :
        (/\ pc[t] = "done"
         /\ call[t].via = "get_entity_data"
         /\ (Failed(outcome[t]) \/ outcome[t].status >= 400)) =>
            /\ result[t].tag = "raised"
            /\ Len(CountedLabels(t, "custom_api_entity_failure_requests")) = 1
            /\ gate[t].admitted
            /\ result[t].exc = "RetryError" =>
                   /\ Len(CountedLabels(t, "custom_entity_retries_total")) = 1
                   /\ retryReasons[t] # <<>> =>
                          CountedLabels(t, "custom_entity_retries_total")[1]
                              = retryReasons[t][Len(retryReasons[t])]

(* C17 *)

\* C17: a finished call whose last attempt raised a failure the retry loop does not
\* retry gave its caller that same failure; and a call that gave its caller
\* CircuitBreakerError had made no attempt.
C17_FailurePassedUnchanged ==
    \A t \in Threads :
        pc[t] = "done" =>
            /\ (Failed(outcome[t]) /\ ~RetryPredicate(call[t], outcome[t])) =>
                   result[t] = Raised(outcome[t].exc, outcome[t].status)
            /\ result[t].exc = "CircuitBreakerError" => invocations[t] = 0

(* C18 *)

\* C18: when a get_entity_data call ends by exhausting its retries, the reason
\* label handle_retry_error writes for the last outcome is the label the retry
\* hook's resolver gives that outcome, and is the label the hook wrote for every
\* earlier attempt of the call that had the same outcome.
C18_SameReasonTag ==
    \A t \in Threads :
        (/\ pc[t] = "done"
         /\ call[t].via = "get_entity_data"
         /\ CountedLabels(t, "custom_entity_retries_total") # <<>>) =>
            LET atExhaustion == CountedLabels(t, "custom_entity_retries_total")[1]
            IN  /\ atExhaustion = DefaultReasonResolver(outcome[t]).tag
                /\ \A i \in 1..Len(retryReasons[t]) :
                       history[t][i] = outcome[t] => retryReasons[t][i] = atExhaustion

(* C19 *)

\* C19: once the caller's deadline has passed while a call waits between two
\* attempts, the call makes no further attempt: it leaves the wait only by ending
\* with a cancellation failure.
C19_CancelledMidBackoff ==
    [][\A t \in Threads :
          (pc[t] = "sleep" /\ cancelled[t]) =>
              /\ pc'[t] \in {"sleep", "done"}
              /\ pc'[t] = "done" => result'[t].exc = "CancelledError"
      ]_vars

(* C20 *)

\* C20: once a breaker has changed state the gauge sample of its key holds the code
\* of the breaker's state, 0 = Closed, 1 = Open, 2 = HalfOpen, for the gauges of
\* both clients, and never another value.
C20_GaugeHoldsStateCode ==
    \A k \in {"K", CustomKey} :
        gauge[LabelOf(k)].set =>
            /\ gauge[LabelOf(k)].value \in {0, 1, 2}
            /\ gauge[LabelOf(k)].value = StateCode(RegBreaker(k).state)

(* C21 *)

\* C21: a get (post, put, delete, patch) that ended with a successful response
\* handed back None when the status is 204, the parsed JSON body when the
\* Content-Type contains application/json and the body parses, and the response
\* text otherwise, also when parsing failed; and a call whose first attempt
\* succeeded made exactly one attempt.
C21_HandleResponse ==
    \A t \in Threads :
        (pc[t] = "done" /\ call[t].via = "get") =>
            LET o == outcome[t]
                isJson == \E i \in DOMAIN ContentType(o) :
                              ContentType(o)[i] = "application/json"
            IN  /\ result[t].tag = "returned" =>
                       /\ o.status = 204 => value[t] = "None"
                       /\ (o.status # 204 /\ isJson /\ JsonParses(o)) => value[t] = "json"
                       /\ (o.status # 204 /\ ~(isJson /\ JsonParses(o))) => value[t] = "text"
                /\ result[t].tag = "raised" => value[t] = "unset"
                /\ (~Failed(history[t][1]) /\ history[t][1].status < 400) =>
                       /\ invocations[t] = 1
                       /\ result[t].tag = "returned"

\* a JSON response whose body does not parse, after one 503: the text is handed back
C21_Witness ==
    /\ pc["t1"] = "done"
    /\ call["t1"].via = "get"
    /\ history["t1"] = <<Resp(503),
                         Response(200, <<"application/json", "charset=utf-8">>, FALSE)>>
    /\ result["t1"] = Returned(200)
    /\ value["t1"] = "text"

(* C22 *)

\* C22: every call through CustomApiClient.get_entity_data or an S3Client operation
\* that ran the attempt function had passed the gate of its key's breaker first,
\* and no attempt is about to run on a key whose breaker is Open and cooling down.
C22_GateBeforeAttempt ==
    \A t \in Threads :
        (call[t].via = "get_entity_data" \/ call[t].kind \in {"s3", "custom"}) =>
            /\ invocations[t] >= 1 => gate[t].admitted
            /\ (pc[t] = "attempt" /\ registry[ClientKey(call[t])] # NoThread) =>
                   ~StillOpen(RegBreaker(ClientKey(call[t])))

(* C23 *)

\* C23: every change of state of a breaker is Closed->Open, Open->HalfOpen,
\* HalfOpen->Closed or HalfOpen->Open; a breaker never goes from Open to Closed
\* without passing through HalfOpen.
C23_OnlyLegalTransitions ==
    [][\A x \in Keys \X Threads :
          (breakers[x].state # "none" /\ breakers'[x].state # breakers[x].state) =>
              <<breakers[x].state, breakers'[x].state>> \in LegalTransitions
      ]_vars

\* a breaker that opened, was tried after the cooldown, and opened again
C23_Witness ==
    /\ pc["t1"] = "done"
    /\ call["t1"].key = "K"
    /\ gate["t1"].state = "open"
    /\ gate["t1"].admitted
    /\ RegBreaker("K").state = "open"
    /\ RegBreaker("K").counter = FailMax + 1
    /\ RegBreaker("K").opened_at = now

(* C24 *)

\* a Closed breaker has counted the failures since the last success, fewer than
\* fail_max
CounterInRange ==
    \A k \in Keys :
        (registry[k] # NoThread /\ RegBreaker(k).state = "closed") =>
            /\ 0 <= RegBreaker(k).counter
            /\ RegBreaker(k).counter < FailMax
            /\ RegBreaker(k).counter = failRun[k]

\* the counter goes to 0 on a success while Closed and on a transition into
\* Closed, and only then; a failure adds one
CounterResets ==
    \A x \in Keys \X Threads :
        LET b == breakers[x]
            b2 == breakers'[x]
            succeeded == \E t \in Threads :
                            /\ pc[t] = "exit" /\ pc'[t] = "done" /\ Breaker(t) = x
                            /\ fnResult[t].tag = "returned"
            failed == \E t \in Threads :
                         /\ pc[t] = "exit" /\ pc'[t] = "done" /\ Breaker(t) = x
                         /\ fnResult[t].tag = "raised"
        IN  b.state # "none" =>
                /\ (b2.state = "closed" /\ b.state # "closed") => b2.counter = 0
                /\ (succeeded /\ b.state = "closed") => b2.counter = 0
                /\ (b2.counter # b.counter /\ b2.counter = 0) =>
                       (succeeded /\ b2.state = "closed")
                /\ failed => b2.counter = b.counter + 1
                /\ (~succeeded /\ ~failed) => b2.counter = b.counter

\* C24: the failure counter is set to 0 on every transition into Closed and on
\* every successful call while Closed, and at no other moment; a Closed breaker
\* has 0 <= counter < fail_max and the counter is the number of failures since the
\* last success.
C24_CounterResets ==
    /\ []CounterInRange
    /\ [][CounterResets]_vars

\* a breaker closed by a successful trial: its counter, past fail_max, is 0 again
C24_Witness ==
    /\ pc["t1"] = "done"
    /\ call["t1"].key = "K"
    /\ gate["t1"].state = "open"
    /\ result["t1"].tag = "returned"
    /\ RegBreaker("K").state = "closed"
    /\ RegBreaker("K").counter = 0
    /\ failRun["K"] = 0

(* C25 *)

\* while a caller is inside a breaker no step of another caller changes that
\* breaker
ExclusiveUpdate ==
    \A t \in Threads :
        (InFlight(t) /\ pc'[t] = pc[t]) =>
            breakers'[Breaker(t)] = breakers[Breaker(t)]

\* an Open breaker changes only by going HalfOpen: it is not opened again, and
\* its counter and opened_at stay as the opening set them
OpenOnce ==
    \A x \in Keys \X Threads :
        breakers[x].state = "open" =>
            \/ breakers'[x] = breakers[x]
            \/ breakers'[x] = [breakers[x] EXCEPT !.state = "half_open"]

\* the step that opens a breaker is the failure that brings the count to fail_max
\* or the failure of a trial; it sets opened_at and notifies the listener
TripSetsOpenedAt ==
    \A x \in Keys \X Threads :
        (breakers[x].state \in {"closed", "half_open"} /\ breakers'[x].state = "open") =>
            /\ breakers'[x].counter = breakers[x].counter + 1
            /\ breakers'[x].counter >= FailMax
            /\ breakers'[x].opened_at = now
            /\ gauge'[LabelOf(x[1])] = GaugeSet(S3StateToInt(StateObject("open")))

\* the counter of a Closed breaker is below fail_max, that of an Open one is not
ClosedBelowMax ==
    \A x \in Keys \X Threads :
        /\ breakers[x].state = "closed" =>
               (0 <= breakers[x].counter /\ breakers[x].counter < FailMax)
        /\ breakers[x].state = "open" => breakers[x].counter >= FailMax

\* C25: with several callers on one breaker, the failure that brings the count to
\* fail_max and the Closed->Open transition happen once per opening (one
\* notification, one opened_at assignment), and no caller's success or failure is
\* applied in the middle of another caller's call, so the counter always has a
\* value a sequential order of the calls produces.
C25_TripsOnce ==
    /\ []ClosedBelowMax
    /\ [][ExclusiveUpdate /\ OpenOnce /\ TripSetsOpenedAt]_vars

\* one caller's failure has opened the breaker at fail_max while the other caller
\* of the same breaker is at its gate
C25_Witness ==
    /\ pc["t1"] = "done"
    /\ invocations["t1"] >= 1
    /\ result["t1"] = Raised("CircuitBreakerError", 0)
    /\ breakers[Breaker("t1")].state = "open"
    /\ breakers[Breaker("t1")].counter = FailMax
    /\ pc["t2"] = "gate"
    /\ Breaker("t2") = Breaker("t1")

(* C26 *)

\* C26: a call waiting between two attempts holds no breaker lock: another caller
\* at the gate of the same breaker can pass or be rejected at once.
C26_BackoffHoldsNoLock ==
    \A t \in Threads :
        (pc[t] = "sleep" /\ call[t].kind # "api") =>
            /\ lockOwner[Breaker(t)] # t
            /\ \A u \in Threads \ {t} :
                  (pc[u] = "gate" /\ Breaker(u) = Breaker(t)) => ENABLED BreakerGate(u)

(* C27 *)

\* C27: in an ApiClient call every retry decision has, by the time its backoff wait
\* starts, incremented the retry counter once with the classified reason of the
\* failed attempt and added one observation with that reason to the retry-duration
\* histogram; a finished call has as many retry-counter increments as attempts
\* minus one.
C27_RetryMetrics ==
    \A t \in Threads :
        (call[t].kind = "api" /\ invocations[t] >= 1) =>
            LET n == IF pc[t] = "done" THEN invocations[t] - 1 ELSE invocations[t]
            IN  /\ Len(retryReasons[t]) = n
                /\ ObservedLabels(t, "api_client_retry_duration_seconds") = retryReasons[t]
                /\ \A i \in 1..n : retryReasons[t][i] = ClassifiedReason(history[t][i])

\* the second backoff wait of a call has begun: two increments, two observations
C27_Witness ==
    /\ pc["t1"] = "sleep"
    /\ call["t1"].kind = "api"
    /\ invocations["t1"] = 2
    /\ retryReasons["t1"] = <<"5xx", "5xx">>
    /\ ObservedLabels("t1", "api_client_retry_duration_seconds") = <<"5xx", "5xx">>

(* C28 *)

\* C28: on every retry decision of an ApiClient call the three observers ran, in
\* their fixed order, and the retry takes place, whatever an observer raised.
C28_ObserversIndependent ==
    \A t \in Threads :
        hooked[t] # <<>> =>
            /\ hooked[t] = AllObservers
            /\ pc[t] \in {"sleep", "attempt"}

(* C29 *)

\* C29: a finished call has added one observation to its client's attempt-duration
\* histogram for every run of the attempt function: k attempts, k observations,
\* and none for a call its breaker rejected.
C29_OneObservationPerAttempt ==
    \A t \in Threads :
        pc[t] = "done" => AttemptObservations(t) = invocations[t]

(* C30 *)

\* C30: for the raised error of an attempt the classifier
\* (RetryPolicy._default_reason_resolver) does not raise and returns the error's
\* kind: timeout, connection_error, or the type name in lower case.
C30_ClassifierTagsRaisedErrors ==
    \A t \in Threads :
        (call[t].kind = "api" /\ Failed(outcome[t])) =>
            /\ ~DefaultReasonResolver(outcome[t]).raised
            /\ DefaultReasonResolver(outcome[t]).tag = ClassifiedKind(outcome[t].exc)

(* C31 *)

\* the default resolver's tag for a returned result is the class of its status
ClassifiedByStatus ==
    /\ \A t \in Threads :
          (classified[t].by = "default" /\ ~Failed(outcome[t])) =>
              /\ ~classified[t].raised
              /\ classified[t].tag = ClassifiedReason(outcome[t])
              /\ outcome[t].status = 500 => classified[t].tag = "5xx"
              /\ outcome[t].status = 429 => classified[t].tag = "rate_limit"
              /\ outcome[t].status = 404 => classified[t].tag = "status_404"
    /\ \A t, u \in Threads :
          (classified[t].by = classified[u].by /\ outcome[t] = outcome[u]) =>
              classified[t] = classified[u]

\* a step that classifies changes no metric, no breaker and no call
ClassifierHasNoSideEffect ==
    classified' # classified =>
        UNCHANGED <<counted, observed, retryReasons, gauge, breakers, registry, pc, call,
                    result, invocations, history, sessions>>

\* C31: the default classifier maps a returned result with status code c to 5xx
\* when c >= 500, to rate_limit when c = 429 and to status_<c> otherwise; the same
\* outcome always gives the same tag, and classifying has no side effect.
C31_ClassifiesByStatus ==
    /\ []ClassifiedByStatus
    /\ [][ClassifierHasNoSideEffect]_vars

\* a 429 result classified as rate_limit, a 404 result as status_404
C31_Witness ==
    /\ outcome["t1"].status = 429
    /\ classified["t1"] = [by |-> "default", raised |-> FALSE, tag |-> "rate_limit"]
    /\ outcome["t2"].status = 404
    /\ classified["t2"] = [by |-> "default", raised |-> FALSE, tag |-> "status_404"]

(* C32 *)

\* C32: custom_reason_classifier gives an app_error tag only for a result that
\* exposes a structured application error code, and then app_error_<code>; a result
\* without such a code gets the tag of the default rules, never app_error_ with an
\* empty code.
C32_AppErrorOnlyWithCode ==
    \A t \in Threads :
        (classified[t].by = "custom" /\ ~Failed(outcome[t])) =>
            /\ ~classified[t].raised
            /\ classified[t].tag \in AppErrorTags =>
                   /\ HasErrorCode(outcome[t])
                   /\ classified[t].tag = "app_error_E42"
            /\ ~HasErrorCode(outcome[t]) =>
                   classified[t].tag = ClassifiedReason(outcome[t])

(* C33 *)

\* an S3 operation that failed on a botocore error used its whole retry budget
WholeBudgetUsed ==
    \A t \in Threads :
        (call[t].kind = "s3" /\ pc[t] \in {"exit", "done"} /\ fnResult[t].tag = "raised"
            /\ IsBotoError(fnResult[t].exc)) =>
            /\ invocations[t] = S3Attempts
            /\ \A i \in 1..S3Attempts : Failed(history[t][i])

\* the breaker's counter changes only when an operation ends, by +1 for a failed
\* one, however many attempts it made; a Closed breaker opens on the failure that
\* makes fail_max failed operations in a row
OneFailurePerOperation ==
    \A x \in Keys \X Threads :
        LET ended == {t \in Threads : pc[t] = "exit" /\ pc'[t] = "done" /\ Breaker(t) = x}
        IN  /\ breakers'[x].counter # breakers[x].counter => ended # {}
            /\ \A t \in ended :
                  (call[t].kind = "s3" /\ fnResult[t].tag = "raised") =>
                      /\ breakers'[x].counter = breakers[x].counter + 1
                      /\ failRun'[x[1]] = failRun[x[1]] + 1
                      /\ breakers[x].state = "closed" =>
                             (breakers'[x].state = "open" <=> failRun'[x[1]] = FailMax)

\* C33: an S3Client operation that fails after using its whole retry budget adds
\* exactly 1 to the breaker's failure counter (once per call, not per attempt), so
\* the breaker opens after fail_max = 3 failed operations, 6 failed attempts.
C33_OneFailurePerOperation ==
    /\ []WholeBudgetUsed
    /\ [][OneFailurePerOperation]_vars

\* the third failed operation, two attempts made, has opened the breaker at count 3
C33_Witness ==
    /\ pc["t1"] = "done"
    /\ call["t1"].kind = "s3"
    /\ call["t1"].key = "K"
    /\ gate["t1"].state = "closed"
    /\ history["t1"] = <<ClientError(500), ClientError(500)>>
    /\ invocations["t1"] = S3Attempts
    /\ RegBreaker("K").state = "open"
    /\ RegBreaker("K").counter = FailMax
    /\ failRun["K"] = FailMax

(* C34 *)

\* C34: file_exists hands back False whenever its last head_object attempt failed
\* with a 404 ClientError, whatever calls were made on the bucket before, and it
\* raises only when an attempt failed with something other than a 404.
C34_FileExistsFalseOn404 ==
    \A t \in Threads :
        (call[t].via = "file_exists" /\ pc[t] = "done") =>
            /\ (invocations[t] >= 1 /\ outcome[t] = ClientError(404)) => value[t] = "False"
            /\ value[t] = "raised" =>
                   /\ invocations[t] >= 1
                   /\ Failed(outcome[t])
                   /\ outcome[t] # ClientError(404)

(* C35 *)

\* C35: health_check never raises and never waits for a retry; when it has ended it
\* made exactly one attempt, and it handed back True if and only if that attempt
\* returned status 200, False otherwise.
C35_HealthCheck ==
    \A t \in Threads :
        call[t].via = "health_check" =>
            /\ pc[t] # "sleep"
            /\ pc[t] = "done" =>
                   /\ value[t] \in {"True", "False"}
                   /\ invocations[t] = 1
                   /\ value[t] = "True" <=> (~Failed(outcome[t]) /\ outcome[t].status = 200)

(* C36 *)

\* C36: without a persistent session the only open sessions are those of requests
\* in progress; and once every request has returned and, for a client with a
\* persistent session, close() has returned, no session of the client is open.
C36_SessionsClosed ==
    /\ ~use_session =>
           \A s \in sessions : \E t \in Threads : InRequest(t) /\ session[t] = s
    /\ ((\A t \in Threads : ~InRequest(t)) /\ (use_session => client_session = NoSession))
           => sessions = {}

(* C37 *)

\* C37: a get_entity_data call has incremented the request counter exactly once and
\* the failure counter at most once, and the failure counter exactly when the call
\* ended in an error; summed over the calls: failures <= requests, and requests -
\* failures is the number of calls that returned plus the number in flight.
C37_RequestsAndFailures ==
    \A t \in Threads :
        call[t].via = "get_entity_data" =>
            LET requests == Len(CountedLabels(t, "custom_api_entity_requests"))
                failures == Len(CountedLabels(t, "custom_api_entity_failure_requests"))
            IN  /\ requests = 1
                /\ failures <= 1
                /\ failures = 1 <=> (pc[t] = "done" /\ result[t].tag = "raised")

(* C38 *)

\* C38: an S3Client operation the breaker admitted has, when it ends, one duration
\* observation: in the success histogram if it returned, in the failure histogram
\* if it raised; the error counter is incremented once, with the error's type, for
\* one that raised and not at all for one that returned; nothing is recorded
\* before the operation ends, nor for an operation the open breaker rejected.
C38_S3Metrics ==
    \A t \in Threads :
        call[t].kind = "s3" =>
            LET succ == ObservedLabels(t, "s3_success_op_duration_seconds")
                fail == ObservedLabels(t, "s3_failure_op_duration_seconds")
                errs == CountedLabels(t, "s3_errors_total")
            IN  /\ (Rejected(t) \/ pc[t] \in {"check", "store", "fetch", "gate",
                                               "attempt", "sleep"}) =>
                       (observed[t] = <<>> /\ counted[t] = <<>>)
                /\ (pc[t] = "done" /\ gate[t].admitted) =>
                       /\ Len(observed[t]) = 1
                       /\ result[t].tag = "returned" =>
                              (Len(succ) = 1 /\ Len(fail) = 0 /\ errs = <<>>)
                       /\ result[t].tag = "raised" =>
                              (Len(succ) = 0 /\ Len(fail) = 1 /\ errs = <<outcome[t].exc>>)

\* the operation that trips the breaker: one failure observation, one error counted
C38_Witness ==
    /\ pc["t1"] = "done"
    /\ call["t1"].kind = "s3"
    /\ invocations["t1"] = S3Attempts
    /\ result["t1"] = Raised("CircuitBreakerError", 0)
    /\ observed["t1"] = <<Obs("s3_failure_op_duration_seconds", "operation")>>
    /\ counted["t1"] = <<Inc("s3_errors_total", "ClientError")>>

====
